---- MODULE Spec2Model ----
(***************************************************************************)
(* Model of src/main.py: deidentify_table_replace_with_info_types, the     *)
(* query -> list rows -> redact -> chunked load pipeline.  One run of the  *)
(* function is one behaviour; pc is the position of the run in the code.   *)
(*                                                                         *)
(* The staging table "project_id.dataset_id.table_id" (line 62) is a       *)
(* different table from the destination f"{project}.{dataset}.{output}"    *)
(* (line 157): a real project id cannot contain an underscore.             *)
(***************************************************************************)
EXTENDS Integers, Sequences, FiniteSets, TLC

(* ---------------- bounds of the model ---------------- *)
MaxRows == 2       \* most rows in the source table
MaxChunk == 2      \* largest chunk size given on the command line
MaxNeg == 2        \* most negative chunk size given is -MaxNeg
MaxDest0 == 1      \* most rows in the destination before the run

(* ---------------- generic helpers ---------------- *)
Range(s) == {s[j] : j \in 1..Len(s)}

Min(a, b) == IF a < b THEN a ELSE b

Max(a, b) == IF a > b THEN a ELSE b

Digits == <<"0", "1", "2", "3", "4", "5", "6", "7", "8", "9">>

RECURSIVE NatToStr(_)
NatToStr(n) ==
    IF n < 10 THEN Digits[n + 1]
    ELSE NatToStr(n \div 10) \o Digits[(n % 10) + 1]

\* str(None) gives the empty text: the usual NULL-handling slip
StrNullEmpty(cell) ==
    CASE cell.kind = "none" -> ""
      [] cell.kind = "int" ->
            IF cell.n < 0 THEN "-" \o NatToStr(-cell.n) ELSE NatToStr(cell.n)
      [] cell.kind = "str" -> cell.s

\* str(cell_val) of line 82, for the cell values a row can hold:
\* None, an int, a str
Str(cell) ==
    CASE cell.kind = "none" -> "None"
      [] cell.kind = "int" ->
            IF cell.n < 0 THEN "-" \o NatToStr(-cell.n) ELSE NatToStr(cell.n)
      [] cell.kind = "str" -> cell.s

\* The text of --chunksize is a sequence of Unicode code points, one per
\* character: "-1" is <<45, 49>>.
RECURSIVE NatToChars(_)
NatToChars(n) ==
    IF n < 10 THEN <<48 + n>>
    ELSE Append(NatToChars(n \div 10), 48 + (n % 10))

\* the command-line text of an integer as one types it: "-" is 45
IntToChars(n) == IF n < 0 THEN <<45>> \o NatToChars(0 - n) ELSE NatToChars(n)

\* the characters int() strips from both ends: \t \n \v \f \r, the blank,
\* U+0085, U+00A0, U+1680, U+2000..U+200A, U+2028, U+2029, U+202F, U+205F,
\* U+3000
WhiteSpace ==
    {9, 10, 11, 12, 13, 32, 133, 160, 5760} \cup (8192..8202)
        \cup {8232, 8233, 8239, 8287, 12288}

\* the digit zero of every decimal digit run of Unicode (category Nd); the
\* digits 0..9 of a run are consecutive code points
DigitZeros ==
    {48, 1632, 1776, 1984, 2406, 2534, 2662, 2790, 2918, 3046, 3174, 3302,
     3430, 3558, 3664, 3792, 3872, 4160, 4240, 6112, 6160, 6470, 6608,
     6784, 6800, 6992, 7088, 7232, 7248, 42528, 43216, 43264, 43472, 43504,
     43600, 44016, 65296, 66720, 68912, 69734, 69872, 69942, 70096, 70384,
     70736, 70864, 71248, 71360, 71472, 71904, 72016, 72784, 73040, 73120,
     92768, 92864, 93008, 120782, 120792, 120802, 120812, 120822, 123200,
     123632, 125264, 130032}

IsDigit(c) == \E z \in DigitZeros : z <= c /\ c <= z + 9

DigitVal(c) == c - (CHOOSE z \in DigitZeros : z <= c /\ c <= z + 9)

RECURSIVE LStrip(_)
LStrip(cs) ==
    IF Len(cs) >= 1 /\ cs[1] \in WhiteSpace THEN LStrip(Tail(cs)) ELSE cs

RECURSIVE RStrip(_)
RStrip(cs) ==
    IF Len(cs) >= 1 /\ cs[Len(cs)] \in WhiteSpace
    THEN RStrip(SubSeq(cs, 1, Len(cs) - 1))
    ELSE cs

\* the text int() reads the digits from: surrounding white space and one
\* sign ("+" is 43, "-" is 45) taken off
Unsigned(cs) ==
    LET t == RStrip(LStrip(cs))
    IN IF Len(t) >= 1 /\ t[1] \in {43, 45} THEN Tail(t) ELSE t

\* decimal digits, single underscores (95) allowed between digits
IsDigits(cs) ==
    /\ Len(cs) >= 1
    /\ IsDigit(cs[1])
    /\ IsDigit(cs[Len(cs)])
    /\ \A j \in 1..Len(cs) : IsDigit(cs[j]) \/ cs[j] = 95
    /\ \A j \in 1..(Len(cs) - 1) : ~(cs[j] = 95 /\ cs[j + 1] = 95)

RECURSIVE DigitsToNat(_)
DigitsToNat(cs) ==
    IF Len(cs) = 0 THEN 0
    ELSE 10 * DigitsToNat(SubSeq(cs, 1, Len(cs) - 1)) + DigitVal(cs[Len(cs)])

\* the most digits int() converts from a text, sys.get_int_max_str_digits()
\* as the runtime sets it
MaxStrDigits == 4300

\* the digits of the text: sign, white space and underscores do not count,
\* leading zeros do
NumDigits(cs) == Len(SelectSeq(Unsigned(cs), LAMBDA c : c # 95))

\* int(chunksize) of line 140 returns a value for the text cs (it raises
\* ValueError otherwise: not a number, or more than MaxStrDigits digits)
PyIntOk(cs) == IsDigits(Unsigned(cs)) /\ NumDigits(cs) <= MaxStrDigits

\* int(chunksize) of line 140 for the text cs
PyInt(cs) ==
    LET t == RStrip(LStrip(cs))
        n == DigitsToNat(SelectSeq(Unsigned(cs), LAMBDA c : c # 95))
    IN IF t[1] = 45 THEN 0 - n ELSE n

\* division that rounds toward zero, as in C
TruncDiv(a, b) ==
    IF b > 0 THEN a \div b ELSE 0 - (a \div (0 - b))

\* a // b of line 141, b # 0: rounds toward minus infinity
PyFloorDiv(a, b) ==
    IF b > 0 THEN a \div b ELSE (0 - a) \div (0 - b)

\* a slice bound of Python: negative counts from the end, then clamped
SliceBound(k, len) == IF k < 0 THEN Max(k + len, 0) ELSE Min(k, len)

\* rows[start:end] of line 146
PySlice(s, start, end) ==
    LET lo == SliceBound(start, Len(s))
        hi == SliceBound(end, Len(s))
    IN IF lo >= hi THEN <<>> ELSE SubSeq(s, lo + 1, hi)

(* ---------------- inputs ---------------- *)
ColNames == {"a", "b"}

\* the schemas a source table can have: the columns in any order
Schemas == {<<"a">>, <<"b">>, <<"a", "b">>, <<"b", "a">>}

NoneCell == [kind |-> "none", n |-> 0, s |-> ""]

IntCell(k) == [kind |-> "int", n |-> k, s |-> ""]

StrCell(t) == [kind |-> "str", n |-> 0, s |-> t]

\* the rows a source table is made of, by column name
SeedRows == <<
    [a |-> StrCell("Ann"), b |-> IntCell(12)],
    [a |-> NoneCell, b |-> IntCell(-3)],
    [a |-> StrCell("Bo"), b |-> NoneCell] >>

SeedSeqs == UNION {[1..k -> 1..Len(SeedRows)] : k \in 0..MaxRows}

\* a warehouse table: ordered schema, rows of cells in schema order
SourceTable(schema, seeds) ==
    [schema |-> schema,
     rows |-> [r \in 1..Len(seeds) |->
                 [j \in 1..Len(schema) |-> SeedRows[seeds[r]][schema[j]]]]]

SourceTables == {SourceTable(sc, sd) : sc \in Schemas, sd \in SeedSeqs}

\* the value main() passes for --chunksize: the text typed, or None when
\* the flag is absent (line 177 does not require it)
NoneArg == [kind |-> "none", text |-> <<>>]

TextArg(cs) == [kind |-> "str", text |-> cs]

\* --chunksize as given: the integers -MaxNeg..MaxChunk, "\t+1\n" with the
\* Arabic-Indic digit one (1633), the non-number "x" (120), and no flag
ChunkArgs ==
    {TextArg(IntToChars(n)) : n \in (0 - MaxNeg)..MaxChunk}
        \cup {TextArg(<<9, 43, 1633, 10>>), TextArg(<<120>>), NoneArg}

InfoTypeLists == {<<"PERSON_NAME">>, <<"EMAIL_ADDRESS", "PHONE_NUMBER">>}

FieldLists == {<<"a">>, <<"b", "a">>}

\* a row the destination holds from an earlier run, by column name
OldRow(schema) == [c \in Range(schema) |-> "old"]

TemplateName == "projects/project_id/locations/global/deidentifyTemplates/template_id"

Placeholder == "################"

\* what the named template puts in place of a detected value
Redacted == "[REDACTED]"

NoTable == [headers |-> <<>>, rows |-> <<>>]

NoFrame == [columns |-> <<>>, data |-> <<>>]

Ev(op, k) == [op |-> op, i |-> k]

(* ---------------- state ---------------- *)
VARIABLES
    pc,                 \* position of the run
    failure,            \* the exception that ended the run, "" if none
    project,            \* argument project
    source,             \* content of the input table
    chunksize,          \* argument chunksize: a text or None
    info_types,         \* argument info_types
    fields,             \* argument deid_content_list
    dest0,              \* destination rows before the run
    staging,            \* content of the staging table of line 62
    dest,               \* destination rows
    item,               \* line 88
    deid_content_list,  \* line 91
    inspect_config,     \* line 94
    deidentify_config,  \* line 97
    request,            \* the request sent at line 124, <<>> before
    response,           \* response.item.table
    deid_data,          \* line 139, 149, 165
    chunk_size,         \* line 140
    num_chunks,         \* line 141
    i,                  \* loop index of line 143
    chunk_df,           \* line 152
    log                 \* remote calls made so far, in order

vars == <<pc, failure, project, source, chunksize, info_types, fields, dest0,
          staging, dest, item, deid_content_list, inspect_config,
          deidentify_config, request, response, deid_data, chunk_size,
          num_chunks, i, chunk_df, log>>

inputs == <<project, source, chunksize, info_types, fields, dest0>>

config == <<deid_content_list, inspect_config, deidentify_config>>

loopvars == <<deid_data, chunk_size, num_chunks, i, chunk_df>>

Init ==
    /\ pc = "start"
    /\ failure = ""
    /\ project = "p1"
    /\ source \in SourceTables
    /\ chunksize \in ChunkArgs
    /\ info_types \in InfoTypeLists
    /\ fields \in FieldLists
    /\ \E k \in 0..MaxDest0 : dest0 = [r \in 1..k |-> OldRow(source.schema)]
    /\ staging = [schema |-> <<>>, rows |-> <<>>]
    /\ dest = dest0
    /\ item = [table |-> NoTable]
    /\ deid_content_list = <<>>
    /\ inspect_config = [info_types |-> <<>>]
    /\ deidentify_config = <<>>
    /\ request = <<>>
    /\ response = NoTable
    /\ deid_data = <<>>
    /\ chunk_size = 0
    /\ num_chunks = 0
    /\ i = 0
    /\ chunk_df = NoFrame
    /\ log = <<>>

Fail(why) == pc' = "failed" /\ failure' = why

(* ---------------- extract: lines 57-72 ---------------- *)
\* line 70: the query job is submitted
Query ==
    /\ pc = "start"
    /\ pc' = "querying"
    /\ log' = Append(log, Ev("query", 0))
    /\ UNCHANGED <<failure, inputs, staging, dest, item, config, request,
                   response, loopvars>>

\* line 70 raises
QueryFail ==
    /\ pc = "start"
    /\ Fail("query")
    /\ log' = Append(log, Ev("query_failed", 0))
    /\ UNCHANGED <<inputs, staging, dest, item, config, request, response,
                   loopvars>>

\* the query job writes its result over the destination table
QueryResultIntoDest ==
    /\ pc = "querying"
    /\ pc' = "staged"
    /\ staging' = source
    /\ dest' = <<>>
    /\ log' = Append(log, Ev("query_done", 0))
    /\ UNCHANGED <<failure, inputs, item, config, request, response, loopvars>>

\* line 71: the query job completes, its result replaces the staging table
\* (destination=table_id, WRITE_TRUNCATE)
QueryResult ==
    /\ pc = "querying"
    /\ pc' = "staged"
    /\ staging' = source
    /\ log' = Append(log, Ev("query_done", 0))
    /\ UNCHANGED <<failure, inputs, dest, item, config, request, response,
                   loopvars>>

\* line 71 raises
QueryResultFail ==
    /\ pc = "querying"
    /\ Fail("query")
    /\ log' = Append(log, Ev("query_failed", 0))
    /\ UNCHANGED <<inputs, staging, dest, item, config, request, response,
                   loopvars>>

(* ---------------- read back: lines 74-88 ---------------- *)
\* line 78
Headers(schema) == [j \in 1..Len(schema) |-> [name |-> schema[j]]]

\* lines 79-83
RowsData(rows) ==
    [r \in 1..Len(rows) |->
        [values |-> [j \in 1..Len(rows[r]) |-> [string_value |-> Str(rows[r][j])]]]]

\* lines 74-88: list the staging table's rows and build the payload
ListRows ==
    /\ pc = "staged"
    /\ pc' = "listed"
    /\ item' = [table |-> [headers |-> Headers(staging.schema),
                           rows |-> RowsData(staging.rows)]]
    /\ log' = Append(log, Ev("list_rows", 0))
    /\ UNCHANGED <<failure, inputs, staging, dest, config, request, response,
                   loopvars>>

\* line 74 or the row iteration of line 80 raises
ListRowsFail ==
    /\ pc = "staged"
    /\ Fail("list_rows")
    /\ log' = Append(log, Ev("list_rows_failed", 0))
    /\ UNCHANGED <<inputs, staging, dest, item, config, request, response,
                   loopvars>>

(* ---------------- configure: lines 90-121 ---------------- *)
\* lines 97-118
InlineConfig(flds) ==
    [record_transformations |->
      [field_transformations |-> <<
        [info_type_transformations |->
           [transformations |-> <<
              [primitive_transformation |->
                 [replace_config |->
                    [new_value |-> [string_value |-> Placeholder]]]] >>],
         fields |-> flds] >>]]

\* lines 91-118
Configure ==
    /\ pc = "listed"
    /\ pc' = "configured"
    /\ deid_content_list' = [j \in 1..Len(fields) |-> [name |-> fields[j]]]
    /\ inspect_config' =
         [info_types |-> [j \in 1..Len(info_types) |-> [name |-> info_types[j]]]]
    /\ deidentify_config' = InlineConfig(deid_content_list')
    /\ UNCHANGED <<failure, inputs, staging, dest, item, request, response,
                   loopvars, log>>

(* ---------------- submit: lines 120-133 ---------------- *)
\* the request dictionary of lines 125-132
Request(proj, itm, insp) ==
    [parent |-> "projects/" \o proj \o "/locations/global",
     deidentify_config |-> [deidentify_template_name |-> TemplateName],
     item |-> itm,
     inspect_config |-> insp]

\* line 124: the one synchronous call is sent
DeidentifyContent ==
    /\ pc = "configured"
    /\ pc' = "redacting"
    /\ request' = Request(project, item, inspect_config)
    /\ log' = Append(log, Ev("deidentify_content", 0))
    /\ UNCHANGED <<failure, inputs, staging, dest, item, config, response,
                   loopvars>>

\* the service's answer: a table of the same shape, the values of the
\* columns the template selects replaced
DlpService(table, cols) ==
    [headers |-> table.headers,
     rows |-> [r \in 1..Len(table.rows) |->
        [values |-> [j \in 1..Len(table.rows[r].values) |->
            IF table.headers[j].name \in cols
            THEN [string_value |-> Redacted]
            ELSE table.rows[r].values[j]]]]]

\* line 124 returns
DlpReturn ==
    /\ pc = "redacting"
    /\ pc' = "redacted"
    /\ \E cols \in SUBSET ColNames :
          response' = DlpService(request.item.table, cols)
    /\ log' = Append(log, Ev("deidentify_done", 0))
    /\ UNCHANGED <<failure, inputs, staging, dest, item, config, request,
                   loopvars>>

\* line 124 raises
DlpFail ==
    /\ pc = "redacting"
    /\ Fail("dlp")
    /\ log' = Append(log, Ev("deidentify_failed", 0))
    /\ UNCHANGED <<inputs, staging, dest, item, config, request, response,
                   loopvars>>

(* ---------------- reassemble and load: lines 139-168 ---------------- *)
\* lines 139-142
StartChunking ==
    /\ pc = "redacted"
    /\ chunksize.kind = "str"
    /\ PyIntOk(chunksize.text)
    /\ PyInt(chunksize.text) # 0
    /\ pc' = "loop"
    /\ deid_data' = <<>>
    /\ chunk_size' = PyInt(chunksize.text)
    /\ num_chunks' = PyFloorDiv(Len(response.rows), chunk_size')
    /\ i' = 0
    /\ UNCHANGED <<failure, inputs, staging, dest, item, config, request,
                   response, chunk_df, log>>

\* line 140 raises TypeError (int(None)) or ValueError, or line 141 raises
\* ZeroDivisionError
ChunkSizeError ==
    /\ pc = "redacted"
    /\ \/ /\ chunksize.kind = "none"
          /\ Fail("TypeError")
          /\ chunk_size' = chunk_size
       \/ /\ chunksize.kind = "str"
          /\ ~PyIntOk(chunksize.text)
          /\ Fail("ValueError")
          /\ chunk_size' = chunk_size
       \/ /\ chunksize.kind = "str"
          /\ PyIntOk(chunksize.text)
          /\ PyInt(chunksize.text) = 0
          /\ Fail("ZeroDivisionError")
          /\ chunk_size' = 0
    /\ deid_data' = <<>>
    /\ UNCHANGED <<inputs, staging, dest, item, config, request, response,
                   num_chunks, i, chunk_df, log>>

\* lines 144-149: the rows of chunk k added to the buffer
Buffered(buf, rows, k, size) ==
    LET chunk == PySlice(rows, k * size, k * size + size)
    IN buf \o [r \in 1..Len(chunk) |->
                 [j \in 1..Len(chunk[r].values) |-> chunk[r].values[j].string_value]]

ColOrder == <<"a", "b">>

Pos(seq, x) == CHOOSE j \in 1..Len(seq) : seq[j] = x

\* the frame with its columns put in name order
ChunkDfSorted(data, headers) ==
    LET names == [j \in 1..Len(headers) |-> headers[j].name]
        cols == SelectSeq(ColOrder, LAMBDA c : c \in Range(names))
    IN [columns |-> cols,
        data |-> [r \in 1..Len(data) |->
                    [j \in 1..Len(cols) |-> data[r][Pos(names, cols[j])]]]]

\* lines 152-155: pd.DataFrame(deid_data, columns=[header.name ...])
ChunkDf(data, headers) ==
    [columns |-> [j \in 1..Len(headers) |-> headers[j].name],
     data |-> data]

\* the rows a load job adds to a table: the frame's rows, by column name
FrameRows(df) ==
    [r \in 1..Len(df.data) |->
        [c \in Range(df.columns) |-> df.data[r][Pos(df.columns, c)]]]

\* the load is submitted and not waited for
LoadChunkNoWait ==
    /\ pc = "loop"
    /\ i < num_chunks + 1
    /\ chunk_df' = ChunkDf(Buffered(deid_data, response.rows, i, chunk_size),
                           response.headers)
    /\ dest' = dest \o FrameRows(chunk_df')
    /\ deid_data' = <<>>
    /\ i' = i + 1
    /\ log' = Append(log, Ev("load", i))
    /\ UNCHANGED <<pc, failure, inputs, staging, item, config, request,
                   response, chunk_size, num_chunks>>

\* lines 143-163: one iteration up to the submission of the load job
LoadChunk ==
    /\ pc = "loop"
    /\ i < num_chunks + 1
    /\ pc' = "loading"
    /\ deid_data' = Buffered(deid_data, response.rows, i, chunk_size)
    /\ chunk_df' = ChunkDf(deid_data', response.headers)
    /\ log' = Append(log, Ev("load", i))
    /\ UNCHANGED <<failure, inputs, staging, dest, item, config, request,
                   response, chunk_size, num_chunks, i>>

\* line 159 raises
LoadSubmitFail ==
    /\ pc = "loop"
    /\ i < num_chunks + 1
    /\ Fail("load")
    /\ deid_data' = Buffered(deid_data, response.rows, i, chunk_size)
    /\ chunk_df' = ChunkDf(deid_data', response.headers)
    /\ log' = Append(log, Ev("load_failed", i))
    /\ UNCHANGED <<inputs, staging, dest, item, config, request, response,
                   chunk_size, num_chunks, i>>

\* the load job replaces the table's rows (WRITE_TRUNCATE passed)
LoadResultTruncate ==
    /\ pc = "loading"
    /\ pc' = "loop"
    /\ dest' = FrameRows(chunk_df)
    /\ deid_data' = <<>>
    /\ i' = i + 1
    /\ log' = Append(log, Ev("load_done", i))
    /\ UNCHANGED <<failure, inputs, staging, item, config, request, response,
                   chunk_size, num_chunks, chunk_df>>

\* lines 164-166: the load job completes (no job_config: rows are appended),
\* the buffer is reset
LoadResult ==
    /\ pc = "loading"
    /\ pc' = "loop"
    /\ dest' = dest \o FrameRows(chunk_df)
    /\ deid_data' = <<>>
    /\ i' = i + 1
    /\ log' = Append(log, Ev("load_done", i))
    /\ UNCHANGED <<failure, inputs, staging, item, config, request, response,
                   chunk_size, num_chunks, chunk_df>>

\* the failed load is cleaned up: the destination is put back
LoadResultFailRollback ==
    /\ pc = "loading"
    /\ Fail("load")
    /\ dest' = dest0
    /\ log' = Append(log, Ev("load_failed", i))
    /\ UNCHANGED <<inputs, staging, item, config, request, response, loopvars>>

\* line 164 raises: the exception leaves the function
LoadResultFail ==
    /\ pc = "loading"
    /\ Fail("load")
    /\ log' = Append(log, Ev("load_failed", i))
    /\ UNCHANGED <<inputs, staging, dest, item, config, request, response,
                   loopvars>>

\* line 168: range(num_chunks + 1) is exhausted
Finish ==
    /\ pc = "loop"
    /\ i >= num_chunks + 1
    /\ pc' = "done"
    /\ UNCHANGED <<failure, inputs, staging, dest, item, config, request,
                   response, loopvars, log>>

Next ==
    \/ Query
    \/ QueryFail
    \/ QueryResult
    \/ QueryResultFail
    \/ ListRows
    \/ ListRowsFail
    \/ Configure
    \/ DeidentifyContent
    \/ DlpReturn
    \/ DlpFail
    \/ StartChunking
    \/ ChunkSizeError
    \/ LoadChunk
    \/ LoadSubmitFail
    \/ LoadResult
    \/ LoadResultFail
    \/ Finish

Spec == Init /\ [][Next]_vars

(* ---------------- properties ---------------- *)
Happened(op) == \E j \in 1..Len(log) : log[j].op = op

NumLoads == Cardinality({j \in 1..Len(log) : log[j].op = "load"})

\* the redacted row count
N == Len(response.rows)

CeilDiv(n, c) == (n + c - 1) \div c

HeaderNames(table) == [j \in 1..Len(table.headers) |-> table.headers[j].name]

\* rows lo..hi of the response as destination rows: the value at position j
\* under the header at position j
RedactedRows(lo, hi) ==
    [r \in 1..(hi - lo + 1) |->
        [c \in Range(HeaderNames(response)) |->
            response.rows[lo + r - 1].values[Pos(HeaderNames(response), c)].string_value]]

\* C1: a completed run with chunk size C >= 1 and N redacted rows has made
\* exactly ceil(N / C) load calls.
C1_LoadsAreCeil ==
    (pc = "done" /\ chunk_size >= 1) => NumLoads = CeilDiv(N, chunk_size)

\* C2: after a completed run with chunk size C >= 1 the destination holds
\* exactly as many rows as the source table, whatever it held before.
C2_FinalCountIsN ==
    (pc = "done" /\ chunk_size >= 1) => Len(dest) = Len(source.rows)

\* C3: when the redaction call raises, no load has been attempted and the
\* destination holds what it held at the start of the run.
C3_DlpFailureLeavesDest ==
    failure = "dlp" =>
        /\ pc = "failed"
        /\ ~Happened("load")
        /\ ~Happened("load_failed")
        /\ dest = dest0

C3_Witness ==
    /\ failure = "dlp"
    /\ Len(dest0) >= 1
    /\ Len(request.item.table.rows) >= 1

\* C4: the request that is sent carries the whole payload, the detector
\* list, and the inline transformation configuration with the field list.
C4_RequestCarriesInline ==
    Happened("deidentify_content") =>
        /\ request.item = item
        /\ request.inspect_config = inspect_config
        /\ request.deidentify_config = deidentify_config

\* C5: the headers of the payload sent are the staging schema in order, and
\* the columns of every frame handed to a load are the response's headers in
\* order.
C5_HeaderOrder ==
    /\ Happened("list_rows") => HeaderNames(item.table) = staging.schema
    /\ Happened("deidentify_content") =>
          HeaderNames(request.item.table) = staging.schema
    /\ (Happened("load") \/ Happened("load_failed")) =>
          chunk_df.columns = HeaderNames(response)

C5_Witness ==
    /\ pc = "loading"
    /\ i >= 1
    /\ Len(chunk_df.data) >= 1
    /\ chunk_df.columns = <<"b", "a">>

\* the text Python prints for each cell value a source table holds
ExpectedText(cell) ==
    CASE cell = StrCell("Ann") -> "Ann"
      [] cell = StrCell("Bo") -> "Bo"
      [] cell = IntCell(12) -> "12"
      [] cell = IntCell(-3) -> "-3"
      [] cell = NoneCell -> "None"

\* C6: the payload has one header per staged column in schema order and one
\* row per staged row in order, each with one text cell per column.
C6_PayloadShape ==
    Happened("list_rows") =>
        LET t == item.table IN
        /\ Len(t.headers) = Len(staging.schema)
        /\ \A j \in 1..Len(t.headers) : t.headers[j] = [name |-> staging.schema[j]]
        /\ Len(t.rows) = Len(staging.rows)
        /\ \A r \in 1..Len(t.rows) :
              /\ Len(t.rows[r].values) = Len(staging.schema)
              /\ \A j \in 1..Len(staging.schema) :
                    t.rows[r].values[j] =
                        [string_value |-> ExpectedText(staging.rows[r][j])]

C6_Witness ==
    /\ pc = "listed"
    /\ staging.schema = <<"b", "a">>
    /\ Len(item.table.rows) = 2
    /\ item.table.rows[1].values[1].string_value = "-3"
    /\ item.table.rows[1].values[2].string_value = "None"

\* the call expected at position j of a run, and its failure
CallAt(j) ==
    CASE j = 1 -> {Ev("query", 0), Ev("query_failed", 0)}
      [] j = 2 -> {Ev("query_done", 0), Ev("query_failed", 0)}
      [] j = 3 -> {Ev("list_rows", 0), Ev("list_rows_failed", 0)}
      [] j = 4 -> {Ev("deidentify_content", 0)}
      [] j = 5 -> {Ev("deidentify_done", 0), Ev("deidentify_failed", 0)}
      [] j > 5 /\ j % 2 = 0 ->
            {Ev("load", (j - 6) \div 2), Ev("load_failed", (j - 6) \div 2)}
      [] j > 5 /\ j % 2 = 1 ->
            {Ev("load_done", (j - 7) \div 2), Ev("load_failed", (j - 7) \div 2)}

FailedOps == {"query_failed", "list_rows_failed", "deidentify_failed", "load_failed"}

\* C7: the remote calls of a run are query, list rows, one redaction call,
\* then the loads of chunks 0, 1, 2, ... each completed before the next is
\* submitted; a run is done only after the redaction call returned.
C7_CallOrder ==
    /\ \A j \in 1..Len(log) :
          /\ log[j] \in CallAt(j)
          /\ log[j].op \in FailedOps => j = Len(log)
    /\ pc = "loading" <=> (Len(log) > 5 /\ log[Len(log)].op = "load")
    /\ pc = "done" =>
          /\ Len(log) >= 5
          /\ log[Len(log)].op \in {"deidentify_done", "load_done"}

C7_Witness ==
    /\ pc = "done"
    /\ Len(log) = 9
    /\ log[8] = Ev("load", 1)

\* C8: when a load fails, the run is over: the failure is the last call, the
\* run is in its failed state, and the destination holds what it held before
\* plus the rows of the chunks loaded before the failing one.
C8_LoadFailureAborts ==
    \A j \in 1..Len(log) :
        log[j].op = "load_failed" =>
            /\ j = Len(log)
            /\ pc = "failed"
            /\ failure = "load"
            /\ i = log[j].i
            /\ dest = dest0 \o
                 (IF chunk_size >= 1
                  THEN RedactedRows(1, Min(i * chunk_size, N))
                  ELSE <<>>)

C8_Witness ==
    /\ failure = "load"
    /\ i >= 1
    /\ Len(dest0) >= 1
    /\ Len(dest) = Len(dest0) + i * chunk_size
    /\ N > i * chunk_size

\* C9: with chunk size C >= 1 the loads only append and the chunks partition
\* the response rows: after k loads the destination is its initial rows
\* followed by the first min(k*C, N) redacted rows in order, at the end all N;
\* a frame is empty only in the last load and exactly when C divides N.
C9_ChunksPartition ==
    chunk_size >= 1 =>
        /\ dest = dest0 \o RedactedRows(1, Min(i * chunk_size, N))
        /\ pc = "done" => dest = dest0 \o RedactedRows(1, N)
        /\ pc = "loading" =>
              /\ Len(chunk_df.data) = Min(chunk_size, N - i * chunk_size)
              /\ Len(chunk_df.data) = 0 <=>
                    (i = num_chunks /\ N % chunk_size = 0)

C9_Witness ==
    /\ pc = "done"
    /\ chunk_size = 1
    /\ N = 2
    /\ Len(dest0) = 1
    /\ dest[2] # dest[3]
    /\ NumLoads = 3

ChunkArgIs(k) ==
    chunksize.kind = "str" /\ PyIntOk(chunksize.text) /\ PyInt(chunksize.text) = k

ChunkArgNegative ==
    chunksize.kind = "str" /\ PyIntOk(chunksize.text) /\ PyInt(chunksize.text) < 0

HeadCalls ==
    <<Ev("query", 0), Ev("query_done", 0), Ev("list_rows", 0),
      Ev("deidentify_content", 0), Ev("deidentify_done", 0)>>

\* C10: a chunk size that is not positive is found only after the query and
\* the redaction call: chunk size 0 fails with a division by zero before any
\* load, the destination untouched; a negative chunk size with N >= 1 runs
\* the loop body zero times and the run completes having loaded nothing.
C10_NonPositiveChunk ==
    /\ (failure # "" /\ log # HeadCalls) => failure \in {"query", "list_rows", "dlp", "load"}
    /\ ChunkArgIs(0) =>
          /\ pc \notin {"loop", "loading", "done"}
          /\ pc = "failed" /\ log = HeadCalls =>
                failure = "ZeroDivisionError" /\ dest = dest0
    /\ failure = "ZeroDivisionError" => ChunkArgIs(0) /\ log = HeadCalls
    /\ (ChunkArgNegative /\ N >= 1) =>
          /\ pc \notin {"loading"}
          /\ pc = "loop" => i >= num_chunks + 1
          /\ pc \in {"loop", "done"} =>
                log = HeadCalls /\ dest = dest0 /\ failure = ""
          /\ pc = "failed" => log # HeadCalls

C10_Witness ==
    /\ pc = "done"
    /\ chunk_size = 0 - 2
    /\ N = 1
    /\ Len(dest0) = 1
====
